---------------------------- MODULE Spec2Model ----------------------------
(* go-latest: the concurrent upgrade run of src/main.go (installer, runMain, *)
(* main), with the errgroup.Group it uses as its bounded task pool and the  *)
(* external commands (buildinfo.ReadFile, go list, go install) as inputs.   *)
EXTENDS Integers, Sequences, FiniteSets

\* ------------------------------------------------------------------ bounds
MaxProgs == 2      \* executables listed in GOBIN: 0..MaxProgs
MaxJ == 1          \* largest value of the -j flag that is tried
MaxChunks == 4     \* pieces a sampled version string is built of
NumCPU == 1        \* runtime.NumCPU() of the machine of the run

\* ---------------------------------------------------------------- strings
\* A string is the sequence of its characters.
Devel == <<"(", "d", "e", "v", "e", "l", ")">>
V100 == <<"v", "1", ".", "0", ".", "0">>
V110 == <<"v", "1", ".", "1", ".", "0">>
V100Pre == <<"v", "1", ".", "0", ".", "0", "-", "0", ".", "a", "1">>
Unknown == <<"?">>

Digits == {"0", "1", "2", "3", "4", "5", "6", "7", "8", "9"}
Letters == {"a", "b", "d", "e", "l", "v", "x"}

Drop(s, n) == SubSeq(s, n + 1, Len(s))

\* semver.parseInt: the length of the leading integer of v, 0 when there is
\* none or when it has a leading zero.
RECURSIVE DigitRun(_)
DigitRun(v) ==
    IF v = <<>> \/ v[1] \notin Digits THEN 0 ELSE 1 + DigitRun(Tail(v))

parseInt(v) ==
    LET i == DigitRun(v)
    IN  IF i = 0 THEN 0
        ELSE IF v[1] = "0" /\ i # 1 THEN 0
        ELSE i

isIdentChar(c) == c \in Digits \/ c \in Letters \/ c = "-"

\* semver.isNum / isBadNum: an all-digit identifier with a leading zero.
isNum(v) == DigitRun(v) = Len(v)
isBadNum(v) == isNum(v) /\ Len(v) > 1 /\ v[1] = "0"

\* semver.parsePrerelease / parseBuild, as the loop over i with the start of
\* the current identifier: the length of the component, 0 when malformed.
RECURSIVE identLoop(_, _, _, _)
identLoop(v, i, start, pre) ==
    IF i <= Len(v) /\ (~pre \/ v[i] # "+")
    THEN IF ~isIdentChar(v[i]) /\ v[i] # "." THEN 0
         ELSE IF v[i] = "."
              THEN IF start = i \/ (pre /\ isBadNum(SubSeq(v, start, i - 1)))
                   THEN 0
                   ELSE identLoop(v, i + 1, i + 1, pre)
              ELSE identLoop(v, i + 1, start, pre)
    ELSE IF start = i \/ (pre /\ isBadNum(SubSeq(v, start, i - 1))) THEN 0
         ELSE i - 1

parsePrerelease(v) ==
    IF v = <<>> \/ v[1] # "-" THEN 0 ELSE identLoop(v, 2, 2, TRUE)

parseBuild(v) ==
    IF v = <<>> \/ v[1] # "+" THEN 0 ELSE identLoop(v, 2, 2, FALSE)

\* The tail of semver.parse after the patch number.
parseSuffix(v) ==
    LET np == IF v # <<>> /\ v[1] = "-" THEN parsePrerelease(v) ELSE 0
        preOk == ~(v # <<>> /\ v[1] = "-") \/ np > 0
        r == Drop(v, np)
        nb == IF r # <<>> /\ r[1] = "+" THEN parseBuild(r) ELSE 0
        buildOk == ~(r # <<>> /\ r[1] = "+") \/ nb > 0
    IN  [ok |-> preOk /\ buildOk /\ Drop(r, nb) = <<>>,
         prerelease |-> SubSeq(v, 1, np)]

NotOk == [ok |-> FALSE, prerelease |-> <<>>]
Plain == [ok |-> TRUE, prerelease |-> <<>>]

\* semver.parse: vMAJOR[.MINOR[.PATCH[-PRERELEASE][+BUILD]]].
parse(v) ==
    IF v = <<>> \/ v[1] # "v" THEN NotOk
    ELSE LET a == Tail(v)
             na == parseInt(a)
             b == Drop(a, na)
         IN  IF na = 0 THEN NotOk
             ELSE IF b = <<>> THEN Plain
             ELSE IF b[1] # "." THEN NotOk
             ELSE LET nb == parseInt(Tail(b))
                      c == Drop(Tail(b), nb)
                  IN  IF nb = 0 THEN NotOk
                      ELSE IF c = <<>> THEN Plain
                      ELSE IF c[1] # "." THEN NotOk
                      ELSE LET nc == parseInt(Tail(c))
                               d == Drop(Tail(c), nc)
                           IN  IF nc = 0 THEN NotOk ELSE parseSuffix(d)

IsValid(v) == parse(v).ok
Prerelease(v) == IF parse(v).ok THEN parse(v).prerelease ELSE <<>>

\* The first version of the check (history of the file): local builds only.
isSpecificDevelOnly(v) == v = Devel

\* The check without the pre-release test: every valid version is pinned.
isSpecificAnyValid(v) == v = Devel \/ IsValid(v)

\* isSpecific: a local build or a version with a pre-release (a SHA).
isSpecific(v) ==
    \/ v = Devel
    \/ IsValid(v) /\ Prerelease(v) # <<>>


\* ------------------------------------------------------------------ inputs
UpstreamVersions == {V100, V110}
RuntimeVersion == "go1.21"
GoVersions == {"go1.20", "go1.21"}

\* -j values tried: negative, zero (the default) and 1..MaxJ.
JFlags == -1..MaxJ

\* An error value: the operation, its cause, and whether the cause is still
\* on the error's Unwrap chain (%w) or only in its text (%s, %v).
Nil == [op |-> "nil", cause |-> "none", wrapped |-> FALSE]
NoInfo == [ok |-> FALSE, Version |-> <<>>, GoVersion |-> "none"]

\* errors.Is(err, context.Canceled)
IsCanceled(err) == err.op # "nil" /\ err.wrapped /\ err.cause = "canceled"

\* What exec.Cmd.CombinedOutput can return: a command started on a context
\* that is already done returns the context's error; one in flight when the
\* context is cancelled finishes first ("ok", "exit"), is killed and returns
\* its exit status ("killed", an *exec.ExitError), or exits with success
\* after the kill and returns the context's error ("canceled").
CmdResults(startedDone, isDone) ==
    IF startedDone THEN {"canceled"}
    ELSE {"ok", "exit"} \cup (IF isDone THEN {"canceled", "killed"} ELSE {})

VARIABLES
    jFlag,        \* -j as given
    latestGo,     \* -go as given
    nprogs,       \* len(progs)
    mainPC,       \* "loop", "wait", "returned", "exited"
    next,         \* index of the next program of the range loop
    sem,          \* tokens held in errgroup's semaphore channel
    wg,           \* errgroup's WaitGroup counter
    egErr,        \* errgroup's first error (errOnce)
    cancelled,    \* ctx.Done() is closed
    pc,           \* per task: "idle", "read", "resolve", "install", "done"
    info,         \* per task: what buildinfo.ReadFile returned
    target,       \* per task: target, <<>> until set
    printed,      \* per task: the lines it printed
    ctxDone,      \* per task: the running command was started on a done ctx
    resolveCalls, \* per task: calls of latest
    installCalls, \* per task: runs of go install
    resolveErr,   \* per task: how latest ended: "none", "nil", "canceled", "other"
    latestRes,    \* per task: how go list ended, "none" before it returned
    installRes,   \* per task: how go install ended, "none" before it returned
    taskErr,      \* per task: what the task function returned
    prior,        \* per program: the build info a previous run installed
    result,       \* what installer returned
    exitCode,     \* the process's exit code, -1 while running
    errShown      \* main printed the error

vars == <<jFlag, latestGo, nprogs, mainPC, next, sem, wg, egErr, cancelled,
          pc, info, target, printed, ctxDone, resolveCalls, installCalls,
          resolveErr, latestRes, installRes, taskErr, prior,
          result, exitCode, errShown>>

Progs == 1..nprogs

\* runMain: -j 0 becomes the number of CPUs.
NProcs == IF jFlag = 0 THEN NumCPU ELSE jFlag

Init ==
    /\ jFlag \in JFlags
    /\ latestGo \in BOOLEAN
    /\ nprogs \in 0..MaxProgs
    /\ mainPC = "loop"
    /\ next = 1
    /\ sem = 0
    /\ wg = 0
    /\ egErr = Nil
    /\ cancelled = FALSE
    /\ pc = [i \in 1..MaxProgs |-> "idle"]
    /\ info = [i \in 1..MaxProgs |-> NoInfo]
    /\ target = [i \in 1..MaxProgs |-> <<>>]
    /\ printed = [i \in 1..MaxProgs |-> <<>>]
    /\ ctxDone = [i \in 1..MaxProgs |-> FALSE]
    /\ resolveCalls = [i \in 1..MaxProgs |-> 0]
    /\ installCalls = [i \in 1..MaxProgs |-> 0]
    /\ resolveErr = [i \in 1..MaxProgs |-> "none"]
    /\ latestRes = [i \in 1..MaxProgs |-> "none"]
    /\ installRes = [i \in 1..MaxProgs |-> "none"]
    /\ taskErr = [i \in 1..MaxProgs |-> Nil]
    /\ prior = [i \in 1..MaxProgs |-> NoInfo]
    /\ result = Nil
    /\ exitCode = -1
    /\ errShown = FALSE

\* ---------------------------------------------------------------- errgroup
\* Group.Go blocks while the semaphore is full; SetLimit(n) with n < 0 means
\* no semaphore at all.
CanGoNoLimit(limit) == TRUE

CanGo(limit) == limit < 0 \/ sem < limit

\* The semaphore after Group.Go took a token and after Group.done gave it back.
SemAcquire(limit) == IF limit < 0 THEN sem ELSE sem + 1
SemReleaseLeak(limit) == sem

SemRelease(limit) == IF limit < 0 THEN sem ELSE sem - 1

\* errOnce: the first non-nil error is kept.
LastErr(err) == IF err # Nil THEN err ELSE egErr

FirstErr(err) == IF egErr = Nil /\ err # Nil THEN err ELSE egErr

\* The context after a task returned err: the zero Group has no cancel
\* function (it was not made by errgroup.WithContext).
CtxAfterWithContext(err) == cancelled \/ err # Nil

CtxAfter(err) == cancelled

\* The task function of program i returned err: Group.done and errOnce.
Return(i, err) ==
    /\ cancelled' = CtxAfter(err)
    /\ pc' = [pc EXCEPT ![i] = "done"]
    /\ taskErr' = [taskErr EXCEPT ![i] = err]
    /\ egErr' = FirstErr(err)
    /\ sem' = SemRelease(NProcs)
    /\ wg' = wg - 1

\* What a task leaves alone while it goes on to its next command.
NoReturn == UNCHANGED <<taskErr, egErr, sem, wg, cancelled>>

\* installer's range loop: eg.Go for the next program.
Go ==
    /\ mainPC = "loop"
    /\ next <= nprogs
    /\ CanGo(NProcs)
    /\ sem' = SemAcquire(NProcs)
    /\ wg' = wg + 1
    /\ pc' = [pc EXCEPT ![next] = "read"]
    /\ next' = next + 1
    /\ UNCHANGED <<jFlag, latestGo, nprogs, mainPC, egErr, cancelled, info,
                   target, printed, ctxDone, resolveCalls, installCalls,
                   resolveErr, latestRes, installRes, taskErr, prior, result,
                   exitCode, errShown>>

\* The range loop is over: installer calls eg.Wait.
LoopEnd ==
    /\ mainPC = "loop"
    /\ next > nprogs
    /\ mainPC' = "wait"
    /\ UNCHANGED <<jFlag, latestGo, nprogs, next, sem, wg, egErr, cancelled,
                   pc, info, target, printed, ctxDone, resolveCalls,
                   installCalls, resolveErr, latestRes, installRes, taskErr,
                   prior, result, exitCode, errShown>>

\* eg.Wait returns once the WaitGroup counter is zero.
WaitReadyEarly == TRUE

WaitReady == wg = 0

Wait ==
    /\ mainPC = "wait"
    /\ WaitReady
    /\ mainPC' = "returned"
    /\ result' = egErr
    /\ UNCHANGED <<jFlag, latestGo, nprogs, next, sem, wg, egErr, cancelled,
                   pc, info, target, printed, ctxDone, resolveCalls,
                   installCalls, resolveErr, latestRes, installRes, taskErr,
                   prior, exitCode, errShown>>

\* runMain hands the error to main: print unless cancellation, exit 1.
Exit ==
    /\ mainPC = "returned"
    /\ mainPC' = "exited"
    /\ exitCode' = IF result # Nil THEN 1 ELSE 0
    /\ errShown' = (result # Nil /\ ~IsCanceled(result))
    /\ UNCHANGED <<jFlag, latestGo, nprogs, next, sem, wg, egErr, cancelled,
                   pc, info, target, printed, ctxDone, resolveCalls,
                   installCalls, resolveErr, latestRes, installRes, taskErr,
                   prior, result>>

\* os.Interrupt arrives: signal.NotifyContext cancels ctx.
Interrupt ==
    /\ mainPC # "exited"
    /\ ~cancelled
    /\ cancelled' = TRUE
    /\ UNCHANGED <<jFlag, latestGo, nprogs, mainPC, next, sem, wg, egErr, pc,
                   info, target, printed, ctxDone, resolveCalls, installCalls,
                   resolveErr, latestRes, installRes, taskErr, prior, result,
                   exitCode, errShown>>

\* ------------------------------------------------------------------- tasks
\* What buildinfo.ReadFile may give: a failure, the two pinned versions and
\* a release built with each Go.
ReadResults ==
    {NoInfo,
     [ok |-> TRUE, Version |-> Devel, GoVersion |-> "go1.21"],
     [ok |-> TRUE, Version |-> V100Pre, GoVersion |-> "go1.20"]}
    \cup [ok : {TRUE}, Version : {V100}, GoVersion : GoVersions]

\* What buildinfo.ReadFile gives for program i: the executable a previous
\* run installed, when there was one.
ReadResultsOf(i) == IF prior[i] = NoInfo THEN ReadResults ELSE {prior[i]}

\* What go list reports as the latest version of program i's module: the
\* version the previous run installed (upstream has not changed).
UpstreamOf(i) ==
    IF prior[i] = NoInfo THEN UpstreamVersions ELSE {prior[i].Version}

ReadErr == [op |-> "buildinfo", cause |-> "read", wrapped |-> TRUE]

\* latest: go list's failure is wrapped with %w, a malformed listing with %v.
LatestErr(r) ==
    CASE r = "ok" -> Nil
      [] r = "json" -> [op |-> "json unmarshal", cause |-> "json", wrapped |-> FALSE]
      [] OTHER -> [op |-> "go list", cause |-> r, wrapped |-> TRUE]

\* The install's failure is formatted with %s.
InstallErr(r) ==
    IF r = "ok" THEN Nil ELSE [op |-> "go install", cause |-> r, wrapped |-> FALSE]

\* The decision of the task: goUpgrade || modUpgrade.
NeedsInstallAnyGo(go, inf, tgt) ==
    RuntimeVersion # inf.GoVersion \/ tgt # inf.Version

NeedsInstallGoOnly(go, inf, tgt) == go /\ RuntimeVersion # inf.GoVersion

NeedsInstallModOnly(go, inf, tgt) == tgt # inf.Version

NeedsInstallAlways(go, inf, tgt) == TRUE

NeedsInstall(go, inf, tgt) ==
    LET goUpgrade == go /\ RuntimeVersion # inf.GoVersion
        modUpgrade == tgt # inf.Version
    IN  goUpgrade \/ modUpgrade

Printf(i, lines) == printed' = [printed EXCEPT ![i] = @ \o lines]

\* The lines of the two decisions.
AlreadyLinesSilent(msg) == msg

AlreadyLines(msg) == msg \o <<"already latest">>

UpgradeLinesSilent(msg) == msg

UpgradeLines(msg) == msg \o <<"->">>

\* How a command ended: on its own ("ok", "failed") or by the cancellation
\* of ctx ("interrupted").
Ended(r) ==
    IF r = "ok" THEN "ok"
    ELSE IF r \in {"canceled", "killed"} THEN "interrupted"
    ELSE "failed"

\* How the task classifies the error of latest.
ErrClass(err) ==
    IF err = Nil THEN "nil" ELSE IF IsCanceled(err) THEN "canceled" ELSE "other"

\* The task starts: buildinfo.ReadFile with one of `results`, isSpecific,
\* then the call of latest.
ReadInfoFrom(i, results) ==
    /\ pc[i] = "read"
    /\ \E r \in results :
         /\ info' = [info EXCEPT ![i] = r]
         /\ IF ~r.ok
            THEN /\ Return(i, ReadErr)
                 /\ UNCHANGED <<printed, resolveCalls, ctxDone>>
            ELSE IF isSpecific(r.Version)
            THEN /\ Printf(i, <<"skip">>)
                 /\ Return(i, Nil)
                 /\ UNCHANGED <<resolveCalls, ctxDone>>
            ELSE /\ pc' = [pc EXCEPT ![i] = "resolve"]
                 /\ resolveCalls' = [resolveCalls EXCEPT ![i] = @ + 1]
                 /\ ctxDone' = [ctxDone EXCEPT ![i] = cancelled]
                 /\ UNCHANGED printed
                 /\ NoReturn
    /\ UNCHANGED <<jFlag, latestGo, nprogs, mainPC, next, target,
                   installCalls, resolveErr, latestRes, installRes, prior,
                   result, exitCode, errShown>>

ReadInfo(i) == ReadInfoFrom(i, ReadResultsOf(i))

\* latest returned: cancellation ends the task, any other failure makes the
\* target "?"; then the decision and the start of go install.
LatestReturn(i) ==
    /\ pc[i] = "resolve"
    /\ \E r \in CmdResults(ctxDone[i], cancelled)
                   \cup (IF ctxDone[i] THEN {} ELSE {"json"}),
          v \in UpstreamOf(i) :
         LET err == LatestErr(r)
             tgt == IF err # Nil THEN Unknown ELSE v
             msg == IF err # Nil THEN <<"error">> ELSE <<>>
         IN  /\ latestRes' = [latestRes EXCEPT ![i] = Ended(r)]
             /\ resolveErr' = [resolveErr EXCEPT ![i] = ErrClass(err)]
             /\ IF IsCanceled(err)
                THEN /\ Return(i, Nil)
                     /\ UNCHANGED <<target, printed, installCalls, ctxDone>>
                ELSE /\ target' = [target EXCEPT ![i] = tgt]
                     /\ IF ~NeedsInstall(latestGo, info[i], tgt)
                        THEN /\ Printf(i, AlreadyLines(msg))
                             /\ Return(i, Nil)
                             /\ UNCHANGED <<installCalls, ctxDone>>
                        ELSE /\ Printf(i, UpgradeLines(msg))
                             /\ pc' = [pc EXCEPT ![i] = "install"]
                             /\ installCalls' = [installCalls EXCEPT ![i] = @ + 1]
                             /\ ctxDone' = [ctxDone EXCEPT ![i] = cancelled]
                             /\ NoReturn
    /\ UNCHANGED <<jFlag, latestGo, nprogs, mainPC, next, info,
                   resolveCalls, installRes, prior, result, exitCode,
                   errShown>>

\* go install returned: its failure is the task's error.
InstallReturn(i) ==
    /\ pc[i] = "install"
    /\ \E r \in CmdResults(ctxDone[i], cancelled) :
         /\ installRes' = [installRes EXCEPT ![i] = Ended(r)]
         /\ Return(i, InstallErr(r))
    /\ UNCHANGED <<jFlag, latestGo, nprogs, mainPC, next, info,
                   target, printed, ctxDone, resolveCalls, installCalls,
                   resolveErr, latestRes, prior, result, exitCode, errShown>>

Next ==
    \/ Go
    \/ LoopEnd
    \/ Wait
    \/ Exit
    \/ Interrupt
    \/ \E i \in Progs : ReadInfo(i)
    \/ \E i \in Progs : LatestReturn(i)
    \/ \E i \in Progs : InstallReturn(i)

Spec == Init /\ [][Next]_vars

\* ------------------------------------------------------------ scheduling
\* Every goroutine that can take a step takes one, and every external
\* command returns: the range loop, eg.Wait and the tasks are weakly fair.
\* The interrupt and the process's exit are not. The limit is positive.
InitFair ==
    /\ Init
    /\ jFlag >= 1
    /\ ~latestGo

SpecFair ==
    /\ InitFair
    /\ [][Next]_vars
    /\ WF_vars(Go)
    /\ WF_vars(LoopEnd)
    /\ WF_vars(Wait)
    /\ \A i \in 1..MaxProgs :
         /\ WF_vars(ReadInfo(i))
         /\ WF_vars(LatestReturn(i))
         /\ WF_vars(InstallReturn(i))

\* ------------------------------------------------------------ a second run
\* The build info of the executable go install wrote for program i: the
\* version go list reported (v when it had failed) and the current Go.
Installed(i, v) ==
    [ok |-> TRUE,
     Version |-> IF target[i] = Unknown THEN v ELSE target[i],
     GoVersion |-> RuntimeVersion]

\* go-latest is run again after a run that installed something: the same
\* GOBIN and -j, -go as the user likes, nothing changed upstream.
Rerun ==
    /\ mainPC = "exited"
    /\ \A i \in 1..MaxProgs : prior[i] = NoInfo
    /\ \E i \in Progs : installRes[i] = "ok"
    /\ \E f \in [1..MaxProgs -> UpstreamVersions] :
         prior' = [i \in 1..MaxProgs |->
                      IF i \in Progs /\ installRes[i] = "ok"
                      THEN Installed(i, f[i]) ELSE NoInfo]
    /\ latestGo' \in BOOLEAN
    /\ mainPC' = "loop"
    /\ next' = 1
    /\ sem' = 0
    /\ wg' = 0
    /\ egErr' = Nil
    /\ cancelled' = FALSE
    /\ pc' = [i \in 1..MaxProgs |-> "idle"]
    /\ info' = [i \in 1..MaxProgs |-> NoInfo]
    /\ target' = [i \in 1..MaxProgs |-> <<>>]
    /\ printed' = [i \in 1..MaxProgs |-> <<>>]
    /\ ctxDone' = [i \in 1..MaxProgs |-> FALSE]
    /\ resolveCalls' = [i \in 1..MaxProgs |-> 0]
    /\ installCalls' = [i \in 1..MaxProgs |-> 0]
    /\ resolveErr' = [i \in 1..MaxProgs |-> "none"]
    /\ latestRes' = [i \in 1..MaxProgs |-> "none"]
    /\ installRes' = [i \in 1..MaxProgs |-> "none"]
    /\ taskErr' = [i \in 1..MaxProgs |-> Nil]
    /\ result' = Nil
    /\ exitCode' = -1
    /\ errShown' = FALSE
    /\ UNCHANGED <<jFlag, nprogs>>

NextTwoRuns ==
    \/ Next
    \/ Rerun

\* Both runs with the default -j.
InitTwoRuns ==
    /\ Init
    /\ jFlag = 0

SpecTwoRuns == InitTwoRuns /\ [][NextTwoRuns]_vars

\* --------------------------------------------- isSpecific on many strings
\* The version strings tried: up to MaxChunks pieces, in any order.
Chunks ==
    {<<"v">>, V100, <<"1">>, <<"0">>, <<".">>, <<"-">>, <<"+">>, <<"a">>, Devel}

RECURSIVE StringsUpTo(_)
StringsUpTo(n) ==
    IF n = 0 THEN {<<>>}
    ELSE LET S == StringsUpTo(n - 1)
         IN  S \cup {x \o c : x \in S, c \in Chunks}

StringResults ==
    [ok : {TRUE}, Version : StringsUpTo(MaxChunks), GoVersion : {RuntimeVersion}]

\* One program, whose executable carries any of the strings as its version.
InitStrings ==
    /\ Init
    /\ nprogs = 1
    /\ jFlag = 0
    /\ ~latestGo

NextStrings ==
    \/ Go
    \/ ReadInfoFrom(1, StringResults)

SpecStrings == InitStrings /\ [][NextStrings]_vars

\* ------------------------------------------------------------ properties
\* Tasks whose function is executing: reading build info, in latest, or in
\* go install.
Running == {i \in Progs : pc[i] \in {"read", "resolve", "install"}}

\* The outcome lines a task printed: every line but the error of latest.
OutcomeCount(i) ==
    Cardinality({n \in 1..Len(printed[i]) : printed[i][n] # "error"})

Returned == mainPC \in {"returned", "exited"}

\* The installed versions that are pinned: the local build and the version
\* with a pre-release.
PinnedVersions == {Devel, V100Pre}

\* C1: with a limit k, 1 <= k <= N, at most k tasks execute at any instant.
C1_AtMostKRunning ==
    (1 <= NProcs /\ NProcs <= nprogs) => Cardinality(Running) <= NProcs

\* A second dispatch is held back by the full semaphore while a task runs.
C1_Witness ==
    /\ NProcs = 1
    /\ nprogs = 2
    /\ mainPC = "loop"
    /\ next = 2
    /\ pc[1] = "install"

\* C2: with -j zero or negative the limit in force is the number of CPUs, so
\* never more than NumCPU tasks execute at once.
C2_DefaultLimitIsNumCPU ==
    jFlag <= 0 => Cardinality(Running) <= NumCPU

\* C3 (as claimed): when the run has returned, every program has exactly one
\* outcome.
C3_ExactlyOneOutcome ==
    Returned => \A i \in Progs : OutcomeCount(i) = 1

\* C3 (amended): when the run has returned, no program has more than one
\* outcome line, and a program whose build info was read and whose resolution
\* was not ended by cancellation has exactly one, whatever failed elsewhere.
C3_OneOutcomeUnlessReadFailedOrCancelled ==
    Returned =>
        \A i \in Progs :
            /\ OutcomeCount(i) <= 1
            /\ (info[i].ok /\ resolveErr[i] # "canceled") => OutcomeCount(i) = 1

\* One program's install failed, the other's resolution failed: both have
\* their outcome.
C3_Witness ==
    /\ Returned
    /\ nprogs = 2
    /\ taskErr[1].op = "go install"
    /\ resolveErr[2] = "other"
    /\ OutcomeCount(1) = 1
    /\ OutcomeCount(2) = 1

\* C4: a pinned program is skipped: its task prints the skip line and ends
\* with neither latest nor go install called, with and without -go.
C4_PinnedIsSkipped ==
    \A i \in Progs :
        (info[i].ok /\ info[i].Version \in PinnedVersions) =>
            /\ pc[i] = "done"
            /\ printed[i] = <<"skip">>
            /\ resolveCalls[i] = 0
            /\ installCalls[i] = 0

\* A SHA-pinned program built with another Go, under -go, after the run.
C4_Witness ==
    /\ Returned
    /\ latestGo
    /\ \E i \in Progs :
         /\ info[i].ok
         /\ info[i].Version = V100Pre
         /\ info[i].GoVersion # RuntimeVersion
         /\ printed[i] = <<"skip">>

\* C5: a resolution that fails for another reason than cancellation sets
\* the target to "?" and no install is run for the program.
C5_ResolveFailedNoInstall ==
    \A i \in Progs :
        resolveErr[i] = "other" => (target[i] = Unknown /\ installCalls[i] = 0)

\* C6: a program whose target equals its version, without -go or built with
\* the current Go, is already latest and go install is not run for it.
C6_AlreadyLatestNoInstall ==
    \A i \in Progs :
        ( /\ info[i].ok
          /\ info[i].Version \notin PinnedVersions
          /\ target[i] = info[i].Version
          /\ (~latestGo \/ info[i].GoVersion = RuntimeVersion) ) =>
            /\ installCalls[i] = 0
            /\ printed[i] = <<"already latest">>
            /\ pc[i] = "done"

\* Already latest without -go although built with another Go.
C6_Witness ==
    \E i \in Progs :
        /\ ~latestGo
        /\ info[i].GoVersion = "go1.20"
        /\ target[i] = V100
        /\ info[i].Version = V100
        /\ printed[i] = <<"already latest">>

\* C7: a program whose resolution succeeds with a target other than its
\* version has go install run exactly once.
C7_InstallExactlyOnce ==
    \A i \in Progs :
        ( /\ info[i].ok
          /\ info[i].Version \notin PinnedVersions
          /\ resolveErr[i] = "nil"
          /\ target[i] # info[i].Version ) => installCalls[i] = 1

\* The install of such a program failed, and the run has returned.
C7_Witness ==
    /\ Returned
    /\ \E i \in Progs :
         /\ resolveErr[i] = "nil"
         /\ target[i] = V110
         /\ info[i].Version = V100
         /\ taskErr[i].op = "go install"
         /\ installCalls[i] = 1

\* C8: a task's return, failed install included, never fires the
\* cancellation signal, and the run returns only with every program's task
\* run to its end.
C8_InstallFailureIsolated ==
    /\ [][(cancelled' /\ ~cancelled) => taskErr' = taskErr /\ pc' = pc]_vars
    /\ []((Returned /\ \E i \in Progs : taskErr[i].op = "go install") =>
             \A j \in Progs : pc[j] = "done")

\* The first program's install failed and the second one was installed
\* after that, with no cancellation.
C8_Witness ==
    /\ Returned
    /\ ~cancelled
    /\ nprogs = 2
    /\ NProcs = 1
    /\ taskErr[1].op = "go install"
    /\ installCalls[2] = 1
    /\ taskErr[2] = Nil

\* C9: a failed read of build info fires the cancellation signal and is the
\* error the run returns.
C9_ReadFailureCancels ==
    /\ \A i \in Progs : taskErr[i] = ReadErr => cancelled
    /\ (Returned /\ \E i \in Progs : taskErr[i] = ReadErr) => result = ReadErr

\* C10: installer has returned only when every program was dispatched and
\* every task has finished.
C10_ReturnAfterAllTasks ==
    Returned => (next > nprogs /\ \A i \in Progs : pc[i] = "done")

\* The run returned after one task failed and one was cancelled.
C10_Witness ==
    /\ mainPC = "returned"
    /\ nprogs = 2
    /\ \E i, j \in Progs :
         /\ taskErr[i] # Nil
         /\ resolveErr[j] = "canceled"

\* C11 (as claimed): a run whose only task errors are installs interrupted
\* by the cancellation exits with code 0 and shows no error.
C11_CancellationExitsZero ==
    ( /\ mainPC = "exited"
      /\ cancelled
      /\ \A i \in Progs : taskErr[i] # Nil => installRes[i] = "interrupted" ) =>
        (exitCode = 0 /\ ~errShown)

\* C12 (as claimed): once the signal has fired, no program that is still
\* waiting for a slot is started.
C12_NoDispatchAfterCancel ==
    [][cancelled => \A i \in Progs : pc[i] = "idle" => pc'[i] = "idle"]_vars

\* C13: the group keeps the first non-nil error a task returns; installer
\* returns it once every task is done, and it is nil exactly when no read of
\* build info and no install failed.
C13_ResultIsFirstFailure ==
    /\ [][egErr # Nil => egErr' = egErr]_vars
    /\ [][\A i \in Progs :
            (egErr = Nil /\ taskErr[i] = Nil /\ taskErr'[i] # Nil) =>
                egErr' = taskErr'[i]]_vars
    /\ [](Returned =>
            /\ result = egErr
            /\ \A i \in Progs : pc[i] = "done"
            /\ (result = Nil <=>
                  \A i \in Progs :
                      info[i].ok /\ installRes[i] \in {"none", "ok"}))

\* Both tasks failed in different ways and the second program's error, the
\* first in time, is the result.
C13_Witness ==
    /\ Returned
    /\ nprogs = 2
    /\ taskErr[1] = ReadErr
    /\ taskErr[2].op = "go install"
    /\ latestRes[2] = "failed"
    /\ result = taskErr[2]

\* The grammar of a pinned version, stated on positions: "(devel)", or
\* vMAJOR.MINOR.PATCH-PRERELEASE with an optional +BUILD, the numbers without
\* leading zeros, the identifiers non-empty and of [0-9A-Za-z-], a numeric
\* pre-release identifier without leading zeros.
Piece(v, a, b) == SubSeq(v, a, b)

IsNumber(x) ==
    /\ x # <<>>
    /\ \A k \in 1..Len(x) : x[k] \in Digits
    /\ (Len(x) = 1 \/ x[1] # "0")

IsIdentList(x) ==
    /\ x # <<>>
    /\ \A k \in 1..Len(x) : x[k] \in Digits \cup Letters \cup {"-", "."}
    /\ x[1] # "."
    /\ x[Len(x)] # "."
    /\ \A k \in 1..(Len(x) - 1) : ~(x[k] = "." /\ x[k + 1] = ".")

\* No numeric identifier of x (between dots) has a leading zero.
NoPaddedNumber(x) ==
    \A a \in 1..Len(x) :
        ( /\ (a = 1 \/ x[a - 1] = ".")
          /\ x[a] = "0"
          /\ a < Len(x)
          /\ x[a + 1] # "." ) =>
            \E k \in a..Len(x) :
                /\ x[k] \notin Digits \cup {"."}
                /\ \A m \in a..k : x[m] # "."

IsPrereleaseAndBuild(x) ==
    \/ IsIdentList(x) /\ NoPaddedNumber(x)
    \/ \E p \in 1..Len(x) :
         /\ x[p] = "+"
         /\ IsIdentList(Piece(x, 1, p - 1))
         /\ NoPaddedNumber(Piece(x, 1, p - 1))
         /\ IsIdentList(Piece(x, p + 1, Len(x)))

PinnedByGrammar(v) ==
    \/ v = Devel
    \/ /\ v # <<>>
       /\ v[1] = "v"
       /\ \E d1 \in 1..Len(v) :
            /\ v[d1] = "."
            /\ IsNumber(Piece(v, 2, d1 - 1))
            /\ \E d2 \in (d1 + 1)..Len(v) :
                 /\ v[d2] = "."
                 /\ IsNumber(Piece(v, d1 + 1, d2 - 1))
                 /\ \E h \in (d2 + 1)..Len(v) :
                      /\ v[h] = "-"
                      /\ IsNumber(Piece(v, d2 + 1, h - 1))
                      /\ IsPrereleaseAndBuild(Piece(v, h + 1, Len(v)))

\* C14: the task skips a program exactly when its version is "(devel)" or a
\* valid semantic version with a pre-release, for every version string.
C14_IsSpecificExact ==
    \A i \in Progs :
        info[i].ok =>
            ( (printed[i] = <<"skip">> /\ pc[i] = "done" /\ resolveCalls[i] = 0)
              <=> PinnedByGrammar(info[i].Version) )

\* A version whose pre-release identifier starts with a zero but is not a
\* number was skipped.
C14_Witness ==
    /\ info[1].ok
    /\ info[1].Version = V100 \o <<"-", "0", "a">>
    /\ printed[1] = <<"skip">>

\* C15: a program that the previous run installed at latest, with upstream
\* unchanged, is already latest in the next run: once go list has answered,
\* the task has printed "already latest" and go install is not run, with and
\* without -go.
C15_SecondRunAlreadyLatest ==
    \A i \in Progs :
        (prior[i] # NoInfo /\ latestRes[i] = "ok") =>
            /\ info[i] = prior[i]
            /\ target[i] = prior[i].Version
            /\ printed[i] = <<"already latest">>
            /\ installCalls[i] = 0
            /\ pc[i] = "done"

\* The second run, under -go, of a program the first run upgraded to v1.1.0.
C15_Witness ==
    /\ mainPC = "exited"
    /\ latestGo
    /\ prior[1] # NoInfo
    /\ prior[1].Version = V110
    /\ printed[1] = <<"already latest">>
    /\ exitCode = 0

\* C16: under -go a program built with another Go is installed again even
\* when its target equals its version; without -go the Go it was built with
\* alone never makes the task install.
C16_ToolchainUpgradeOnlyWithFlag ==
    \A i \in Progs :
        ( /\ info[i].ok
          /\ info[i].Version \notin PinnedVersions
          /\ latestRes[i] = "ok"
          /\ target[i] = info[i].Version
          /\ info[i].GoVersion # RuntimeVersion ) =>
            /\ latestGo => (installCalls[i] = 1 /\ printed[i] = <<"->">>)
            /\ ~latestGo => (installCalls[i] = 0 /\ printed[i] = <<"already latest">>)

\* Under -go, a v1.0.0 built with go1.20 whose latest is v1.0.0 was
\* installed again.
C16_Witness ==
    /\ latestGo
    /\ \E i \in Progs :
         /\ info[i].Version = V100
         /\ info[i].GoVersion = "go1.20"
         /\ target[i] = V100
         /\ installCalls[i] = 1
         /\ installRes[i] = "ok"

\* C17 (as claimed): a resolution ended by the cancellation of ctx ends the
\* task silently: nothing printed, no "?" target, no install, no error.
C17_CancelledResolveIsSilent ==
    \A i \in Progs :
        latestRes[i] = "interrupted" =>
            /\ printed[i] = <<>>
            /\ target[i] = <<>>
            /\ installCalls[i] = 0
            /\ taskErr[i] = Nil

\* C18 (as claimed): go install starts only after go list has returned, and
\* the task has printed no outcome while its install is running.
C18_OutcomeAfterInstall ==
    \A i \in Progs :
        /\ installCalls[i] > 0 => latestRes[i] # "none"
        /\ pc[i] = "install" => OutcomeCount(i) = 0

\* C18 (amended): latest is called only for a program classified as not
\* pinned, go install starts only after latest has returned and the target
\* is set, and the task's outcome line is printed before the install starts
\* and is still its last line when the task is done.
C18_OutcomeBeforeInstall ==
    \A i \in Progs :
        /\ resolveCalls[i] > 0 =>
             (info[i].ok /\ info[i].Version \notin PinnedVersions)
        /\ installCalls[i] > 0 =>
             /\ resolveCalls[i] = 1
             /\ latestRes[i] # "none"
             /\ target[i] # <<>>
             /\ printed[i] # <<>>
             /\ printed[i][Len(printed[i])] = "->"
             /\ OutcomeCount(i) = 1

\* An install that succeeded: the only line is the one printed before it.
C18_Witness ==
    \E i \in Progs :
        /\ pc[i] = "done"
        /\ installRes[i] = "ok"
        /\ printed[i] = <<"->">>

\* C19: with a positive limit and every command returning, installer
\* returns, all programs dispatched.
C19_InstallerReturns ==
    (NProcs > 0) ~> (Returned /\ next > nprogs)

\* Two programs went through one slot and installer returned.
C19_Witness ==
    /\ Returned
    /\ nprogs = 2
    /\ NProcs = 1
    /\ installRes[1] # "none"
    /\ installRes[2] # "none"

\* C20: the slots held are as many as the tasks started and not finished,
\* and none is held once installer has returned.
C20_SlotsEqualRunning ==
    /\ sem = Cardinality(Running)
    /\ Returned => sem = 0

=============================================================================
